---- MODULE Spec2Model ----
(***************************************************************************)
(* A model of spreadsheet.go: main() runs readOrders, calculate and        *)
(* writeOrders in sequence over a table of text cells.                     *)
(*                                                                         *)
(* A cell (a Go string) is a sequence of one-character strings, so that    *)
(* strings.Replace, strconv.Atoi and fmt.Sprintf work on the characters.   *)
(* Go indexes from 0 and TLA+ from 1: At(row, k) is the Go row[k].         *)
(* The integers of the model stay far below 2^63, the width of Go's int    *)
(* on the 64-bit builds; no arithmetic of the model wraps.                 *)
(***************************************************************************)
EXTENDS Integers, Sequences, FiniteSets, TLC

\* Bounds of the model.
MaxRows == 2     \* data rows in the input file
MaxWidth == 6    \* cells per row of the input file
MaxLen == 5      \* characters of a price cell handed to the price parser
MaxCents == 1200 \* range of amounts handed to intToFloatString on its own

VARIABLES
    pc,       \* position of main(): which step runs next
    rows,     \* the table in memory (readOrders' result, calculate's rows)
    i,        \* calculate's loop index
    sum,      \* calculate's accumulator of totals, in cents
    nb,       \* calculate's ball pen counter
    inOpen,   \* the handle on orders.csv is open
    outOpen,  \* the handle on ordersReport.csv is open
    werr,     \* the err that writeOrders assigns from w.WriteAll
    outFile,  \* ordersReport.csv on disk
    msg,      \* what log.Fatalf / log.Fatalln printed
    started,  \* the stages entered so far, in order
    input,    \* the table readOrders returned, as it was read
    fnPc,     \* position of a stand-alone function application
    fnArg,    \* its argument
    fnRes     \* its result

vars == <<pc, rows, i, sum, nb, inOpen, outOpen, werr, outFile, msg,
          started, input, fnPc, fnArg, fnRes>>

mainVars == <<pc, rows, i, sum, nb, inOpen, outOpen, werr, outFile, msg,
              started, input>>
fnVars == <<fnPc, fnArg, fnRes>>

----------------------------------------------------------------------------
\* Characters and numbers

Digits == {"0", "1", "2", "3", "4", "5", "6", "7", "8", "9"}

DigitVal(c) ==
    CASE c = "0" -> 0 [] c = "1" -> 1 [] c = "2" -> 2 [] c = "3" -> 3
      [] c = "4" -> 4 [] c = "5" -> 5 [] c = "6" -> 6 [] c = "7" -> 7
      [] c = "8" -> 8 [] c = "9" -> 9

DigitChar(d) == <<"0", "1", "2", "3", "4", "5", "6", "7", "8", "9">>[d + 1]

RECURSIVE Pow10(_)
Pow10(k) == IF k = 0 THEN 1 ELSE 10 * Pow10(k - 1)

\* The value of a sequence of decimal digits.
RECURSIVE DigitsVal(_)
DigitsVal(s) ==
    IF Len(s) = 0 THEN 0
    ELSE 10 * DigitsVal(SubSeq(s, 1, Len(s) - 1)) + DigitVal(s[Len(s)])

AllDigits(s) == \A k \in 1..Len(s) : s[k] \in Digits

\* Go's integer division truncates toward zero.
GoDiv(a, b) == IF a >= 0 THEN a \div b ELSE -((-a) \div b)

\* strconv.Atoi: an optional sign, then one or more decimal digits.
Atoi(s) ==
    LET signed == Len(s) > 0 /\ s[1] \in {"+", "-"}
        body   == IF signed THEN Tail(s) ELSE s
    IN  IF Len(body) = 0 \/ ~AllDigits(body)
        THEN [err |-> TRUE, val |-> 0]
        ELSE [err |-> FALSE,
              val |-> IF signed /\ s[1] = "-" THEN -DigitsVal(body)
                      ELSE DigitsVal(body)]

\* strings.Replace(s, ".", "", -1): every "." removed.
RemoveDots(s) == SelectSeq(s, LAMBDA c : c # ".")

\* The %d verb of fmt, and fmt.Sprint of an int.
RECURSIVE NatString(_)
NatString(n) ==
    IF n < 10 THEN <<DigitChar(n)>>
    ELSE NatString(n \div 10) \o <<DigitChar(n % 10)>>

Sprint(n) == IF n < 0 THEN <<"-">> \o NatString(-n) ELSE NatString(n)

\* A zero-padded variant: the fraction always on two digits.
intToFloatStringPadded(n) ==
    LET intgr == GoDiv(n, 100)
        frac  == n - intgr * 100
    IN  Sprint(intgr) \o <<".">>
          \o (IF frac >= 0 /\ frac < 10 THEN <<"0">> ELSE <<>>) \o Sprint(frac)

intToFloatString(n) ==
    LET intgr == GoDiv(n, 100)
        frac  == n - intgr * 100
    IN  Sprint(intgr) \o <<".">> \o Sprint(frac)

\* The integer calculate takes for the price of a UnitPrice cell.
ParsePrice(cell) == Atoi(RemoveDots(cell))

----------------------------------------------------------------------------
\* Cells and tables

BallPen == <<"B", "a", "l", "l", " ", "P", "e", "n">>
BallPens == <<"B", "a", "l", "l", " ", "P", "e", "n", "s">>
ballpen == <<"b", "a", "l", "l", " ", "p", "e", "n">>
Total == <<"T", "o", "t", "a", "l">>
SumLabel == <<"S", "u", "m">>
Empty == <<>>

\* The cells the input file is built from.
ItemCells == {BallPen, ballpen, BallPens}
PriceCells == {<<"1", ".", "9", "9">>, <<"0", ".", "0", "1">>, <<"x">>}
QtyCells == {<<"5">>, <<"-", "1">>, <<"x">>}
DateCell == <<"1", "7">>
IdCell == <<"1">>

Header5 == <<<<"D">>, <<"I", "D">>, <<"I", "t", "e", "m">>, <<"P">>, <<"Q">>>>
DataRows5 ==
    {<<DateCell, IdCell, it, p, q>> :
        it \in ItemCells, p \in PriceCells, q \in QtyCells}

\* A five-cell row cut or padded to w cells.
Resize(row, w) ==
    IF w <= Len(row) THEN SubSeq(row, 1, w)
    ELSE row \o [k \in 1..(w - Len(row)) |-> Empty]

\* What csv.Reader.ReadAll can return: no record at all, or a header and
\* up to MaxRows records, all with as many fields as the first record.
RowsOfWidth(w) == {Resize(d, w) : d \in DataRows5}
Table(w, d) == <<Resize(Header5, w)>> \o d

\* Go's row[k], k counted from 0.
At(row, k) == row[k + 1]

\* A variant that puts the new element in front.
appendFront(s, e) == <<e>> \o s

\* Go's append on a slice.
append(s, e) == Append(s, e)

\* ordersReport.csv before the run: absent, or left by an earlier run.
NoFile == [exists |-> FALSE, rows |-> <<>>, touched |-> FALSE]
OldFile == [exists |-> TRUE, rows |-> <<<<<<"o">>>>>>, touched |-> FALSE]

NoMsg == [kind |-> "none", item |-> Empty]

----------------------------------------------------------------------------
\* calculate's helpers

\* A variant that counts every item whose name begins with "Ball Pen".
IsBallPenPrefix(item) ==
    Len(item) >= Len(BallPen) /\ SubSeq(item, 1, Len(BallPen)) = BallPen

\* The test of line 233.
IsBallPen(item) == item = BallPen

\* A variant that reads the quantity before the price.
ParseRowQtyFirst(row) ==
    IF Len(row) < 3 THEN [out |-> "panic", price |-> 0, qty |-> 0]
    ELSE IF Len(row) < 5 THEN [out |-> "panic", price |-> 0, qty |-> 0]
    ELSE IF Atoi(At(row, 4)).err
      THEN [out |-> "qty", price |-> 0, qty |-> 0]
    ELSE IF ParsePrice(At(row, 3)).err
      THEN [out |-> "price", price |-> 0, qty |-> 0]
    ELSE [out |-> "ok", price |-> ParsePrice(At(row, 3)).val,
          qty |-> Atoi(At(row, 4)).val]

\* Lines 206-221 on one data row: the item is read at index 2, then the
\* price at index 3 and the quantity at index 4. An index the row does not
\* have panics; a cell that does not parse is fatal.
ParseRow(row) ==
    IF Len(row) < 3 THEN [out |-> "panic", price |-> 0, qty |-> 0]
    ELSE IF Len(row) < 4 THEN [out |-> "panic", price |-> 0, qty |-> 0]
    ELSE IF ParsePrice(At(row, 3)).err
      THEN [out |-> "price", price |-> 0, qty |-> 0]
    ELSE IF Len(row) < 5 THEN [out |-> "panic", price |-> 0, qty |-> 0]
    ELSE IF Atoi(At(row, 4)).err
      THEN [out |-> "qty", price |-> 0, qty |-> 0]
    ELSE [out |-> "ok", price |-> ParsePrice(At(row, 3)).val,
          qty |-> Atoi(At(row, 4)).val]

\* A variant that leaves the label column out.
SumRowShort(s) == <<Empty, Empty, SumLabel, Empty, intToFloatString(s)>>

\* The rows of lines 240 and 241.
SumRow(s) == <<Empty, Empty, Empty, SumLabel, Empty, intToFloatString(s)>>
BallPensRow(n) == <<Empty, Empty, Empty, BallPens, Sprint(n), Empty>>

\* A variant of the deferred close that leaves the handle open.
CloseLeak(h) == h

\* f.Close() on an open handle.
Close(h) == FALSE

----------------------------------------------------------------------------
\* main()

Init ==
    /\ pc = "readOrders"
    /\ rows = <<>>
    /\ i = 0
    /\ sum = 0
    /\ nb = 0
    /\ inOpen = FALSE
    /\ outOpen = FALSE
    /\ werr = FALSE
    /\ outFile \in {NoFile, OldFile}
    /\ msg = NoMsg
    /\ started = <<>>
    /\ input = <<>>
    /\ fnPc = "idle"
    /\ fnArg = 0
    /\ fnRes = <<>>

Fatal(kind, item) ==
    /\ pc' = "fatal"
    /\ msg' = [kind |-> kind, item |-> item]

\* readOrders, lines 131-139: os.Open succeeds or the run ends.
ReadOpen ==
    /\ pc = "readOrders"
    /\ started' = Append(started, "Reader")
    /\ \/ /\ Fatal("open", Empty)
          /\ UNCHANGED inOpen
       \/ /\ pc' = "readAll"
          /\ inOpen' = TRUE
          /\ UNCHANGED msg
    /\ UNCHANGED <<rows, i, sum, nb, outOpen, werr, outFile, input>>
    /\ UNCHANGED fnVars

\* readOrders, lines 152-168: ReadAll fails and the run ends (os.Exit runs
\* no deferred call), or the rows are returned and the deferred f.Close()
\* runs.
ReadAll ==
    /\ pc = "readAll"
    /\ \/ /\ Fatal("read", Empty)
          /\ UNCHANGED <<rows, input, inOpen>>
       \/ /\ \/ rows' = <<>>
             \/ \E w \in 1..MaxWidth, n \in 0..MaxRows :
                  \E d \in [1..n -> RowsOfWidth(w)] : rows' = Table(w, d)
          /\ input' = rows'
          /\ inOpen' = Close(inOpen)
          /\ pc' = "calculate"
          /\ UNCHANGED msg
    /\ UNCHANGED <<i, sum, nb, outOpen, werr, outFile, started>>
    /\ UNCHANGED fnVars

\* calculate, lines 179-186: the accumulators and the loop start.
CalcEnter ==
    /\ pc = "calculate"
    /\ started' = Append(started, "Calculator")
    /\ sum' = 0
    /\ nb' = 0
    /\ i' = 0
    /\ pc' = "loop"
    /\ UNCHANGED <<rows, inOpen, outOpen, werr, outFile, msg, input>>
    /\ UNCHANGED fnVars

\* calculate, lines 186-236: one iteration of the loop over the rows. The
\* header gets its label; a data row is parsed and then panics, ends the
\* run, or gets its total while the accumulators are updated. (row, r and
\* total are bound by \E over one-element sets so that each is computed
\* once.)
CalcLoop ==
    /\ pc = "loop"
    /\ i < Len(rows)
    /\ \/ /\ i = 0
          /\ rows' = [rows EXCEPT ![1] = append(rows[1], Total)]
          /\ i' = i + 1
          /\ UNCHANGED <<pc, sum, nb, msg>>
       \/ /\ i > 0
          /\ \E row \in {rows[i + 1]} :
             \E r \in {ParseRow(row)} :
             \E total \in {r.price * r.qty} :
                \/ /\ r.out = "panic"
                   /\ pc' = "panic"
                   /\ UNCHANGED <<rows, i, sum, nb, msg>>
                \/ /\ r.out \in {"price", "qty"}
                   /\ Fatal(r.out, At(row, 2))
                   /\ UNCHANGED <<rows, i, sum, nb>>
                \/ /\ r.out = "ok"
                   /\ rows' = [rows EXCEPT ![i + 1] =
                                 append(row, intToFloatString(total))]
                   /\ sum' = sum + total
                   /\ nb' = IF IsBallPen(At(row, 2)) THEN nb + r.qty ELSE nb
                   /\ i' = i + 1
                   /\ UNCHANGED <<pc, msg>>
    /\ UNCHANGED <<inOpen, outOpen, werr, outFile, started, input>>
    /\ UNCHANGED fnVars

\* calculate, lines 238-244: the two summary rows, and the return.
CalcAppend ==
    /\ pc = "loop"
    /\ i = Len(rows)
    /\ rows' = append(append(rows, SumRow(sum)), BallPensRow(nb))
    /\ pc' = "writeOrders"
    /\ UNCHANGED <<i, sum, nb, inOpen, outOpen, werr, outFile, msg,
                   started, input>>
    /\ UNCHANGED fnVars

\* writeOrders, lines 265-268: os.Create truncates or creates the file, or
\* fails and the run ends.
WriteCreate ==
    /\ pc = "writeOrders"
    /\ started' = Append(started, "Writer")
    /\ \/ /\ Fatal("create", Empty)
          /\ UNCHANGED <<outOpen, outFile>>
       \/ /\ outOpen' = TRUE
          /\ outFile' = [exists |-> TRUE, rows |-> <<>>, touched |-> TRUE]
          /\ pc' = "writeAll"
          /\ UNCHANGED msg
    /\ UNCHANGED <<rows, i, sum, nb, inOpen, werr, input>>
    /\ UNCHANGED fnVars

\* writeOrders, lines 279-280: WriteAll writes and flushes every row, or
\* stops at some row with an error; the error is assigned to err.
WriteAll ==
    /\ pc = "writeAll"
    /\ \/ /\ werr' = FALSE
          /\ outFile' = [outFile EXCEPT !.rows = rows]
       \/ \E k \in 0..Len(rows) :
            /\ werr' = TRUE
            /\ outFile' = [outFile EXCEPT !.rows = SubSeq(rows, 1, k)]
    /\ pc' = "close"
    /\ UNCHANGED <<rows, i, sum, nb, inOpen, outOpen, msg, started, input>>
    /\ UNCHANGED fnVars

\* writeOrders, lines 272-281: the function returns; the deferred function
\* closes the file and ends the run if Close fails. err is not read.
WriteClose ==
    /\ pc = "close"
    /\ outOpen' = Close(outOpen)
    /\ \/ Fatal("close", Empty)
       \/ /\ pc' = "done"
          /\ UNCHANGED msg
    /\ UNCHANGED <<rows, i, sum, nb, inOpen, werr, outFile, started, input>>
    /\ UNCHANGED fnVars

Next ==
    \/ ReadOpen
    \/ ReadAll
    \/ CalcEnter
    \/ CalcLoop
    \/ CalcAppend
    \/ WriteCreate
    \/ WriteAll
    \/ WriteClose

Spec == Init /\ [][Next]_vars

\* main() is one sequential goroutine: a step that can run does run.
FairSpec == Spec /\ WF_vars(Next)

Terminated == pc \in {"done", "fatal", "panic"}

----------------------------------------------------------------------------
\* The two conversions applied on their own, to arguments drawn from
\* bounded sets.

FmtArgs == ((-MaxCents)..MaxCents) \cup {9900, 9950, 22940}

PriceAlphabet == {"0", "1", "2", "5", "9", ".", "x"}
PriceArgs == UNION {[1..n -> PriceAlphabet] : n \in 0..MaxLen}

FnInit(args) ==
    /\ pc = "readOrders"
    /\ rows = <<>>
    /\ i = 0
    /\ sum = 0
    /\ nb = 0
    /\ inOpen = FALSE
    /\ outOpen = FALSE
    /\ werr = FALSE
    /\ outFile = NoFile
    /\ msg = NoMsg
    /\ started = <<>>
    /\ input = <<>>
    /\ fnPc = "call"
    /\ fnArg \in args
    /\ fnRes = <<>>

FmtInit == FnInit(FmtArgs)

\* intToFloatString(fnArg)
FmtApply ==
    /\ fnPc = "call"
    /\ fnRes' = intToFloatString(fnArg)
    /\ fnPc' = "ret"
    /\ UNCHANGED fnArg
    /\ UNCHANGED mainVars

FmtSpec == FmtInit /\ [][FmtApply]_vars

PriceInit == FnInit(PriceArgs)

\* strconv.Atoi(strings.Replace(fnArg, ".", "", -1))
PriceApply ==
    /\ fnPc = "call"
    /\ fnRes' = ParsePrice(fnArg)
    /\ fnPc' = "ret"
    /\ UNCHANGED fnArg
    /\ UNCHANGED mainVars

PriceSpec == PriceInit /\ [][PriceApply]_vars

----------------------------------------------------------------------------
\* Reading a cell back as a decimal number

DotAt(s) == {k \in 1..Len(s) : s[k] = "."}
IntPart(s) ==
    IF DotAt(s) = {} THEN s
    ELSE SubSeq(s, 1, (CHOOSE k \in DotAt(s) : TRUE) - 1)
FracPart(s) ==
    IF DotAt(s) = {} THEN <<>>
    ELSE SubSeq(s, (CHOOSE k \in DotAt(s) : TRUE) + 1, Len(s))

\* A non-negative decimal number: digits, or digits "." digits.
IsDecimal(s) ==
    /\ Cardinality(DotAt(s)) <= 1
    /\ Len(IntPart(s)) > 0
    /\ AllDigits(IntPart(s))
    /\ AllDigits(FracPart(s))
    /\ (DotAt(s) # {} => Len(FracPart(s)) > 0)

\* The value of the decimal s is DecNum(s) / DecScale(s).
DecScale(s) == Pow10(Len(FracPart(s)))
DecNum(s) == DigitsVal(IntPart(s)) * DecScale(s) + DigitsVal(FracPart(s))

\* A decimal of at most two fractional digits, and its value in cents.
IsMoney(s) == IsDecimal(s) /\ Len(FracPart(s)) <= 2
Cents(s) == (DecNum(s) * 100) \div DecScale(s)

\* Digits without a leading zero, as %d writes them.
Canonical(s) == Len(s) = 1 \/ (Len(s) > 1 /\ s[1] # "0")

----------------------------------------------------------------------------
\* Where calculate stands

\* calculate has returned its table.
Returned ==
    \/ pc \in {"writeOrders", "writeAll", "close", "done"}
    \/ pc = "fatal" /\ msg.kind \in {"create", "close"}

\* The positions (from 1) of the data rows calculate has annotated.
Processed == IF Returned THEN 2..(Len(rows) - 2) ELSE 2..i

PriceOf(row) == ParsePrice(At(row, 3)).val
QtyOf(row) == Atoi(At(row, 4)).val

\* The cell calculate appended to an annotated row: its last cell.
TotalCell(row) == row[Len(row)]

RECURSIVE TotalsUpTo(_, _)
TotalsUpTo(t, k) ==
    IF k < 2 THEN 0 ELSE TotalsUpTo(t, k - 1) + PriceOf(t[k]) * QtyOf(t[k])

RECURSIVE CellCentsUpTo(_, _)
CellCentsUpTo(t, k) ==
    IF k < 2 THEN 0 ELSE CellCentsUpTo(t, k - 1) + Cents(TotalCell(t[k]))

RECURSIVE BallPenQtyUpTo(_, _)
BallPenQtyUpTo(t, k) ==
    IF k < 2 THEN 0
    ELSE BallPenQtyUpTo(t, k - 1)
           + (IF At(t[k], 2) = BallPen THEN QtyOf(t[k]) ELSE 0)

LastProcessed == IF Returned THEN Len(rows) - 2 ELSE i

----------------------------------------------------------------------------
\* Properties

\* C1: for every annotated data row whose price p (in cents) and quantity q
\* are not negative, the Total cell read back as a decimal number equals
\* (p * q) / 100 exactly.
TotalCellIsProduct ==
    \A k \in Processed :
        (PriceOf(rows[k]) >= 0 /\ QtyOf(rows[k]) >= 0) =>
            /\ IsDecimal(TotalCell(rows[k]))
            /\ DecNum(TotalCell(rows[k])) * 100
                 = PriceOf(rows[k]) * QtyOf(rows[k])
                     * DecScale(TotalCell(rows[k]))

\* The accumulator of calculate after the data rows annotated so far is the
\* sum of price * quantity over them (the integer half of C2).
SumIsAccumulated == sum = TotalsUpTo(rows, LastProcessed)

\* C2: the grand total is the sum of the per-row totals: the accumulator is
\* the sum of price * quantity over the rows annotated so far, and once the
\* table is returned the Sum row's Total cell and the data rows' Total
\* cells, read back as decimal numbers, add up.
GrandTotalAddsUp ==
    /\ sum = TotalsUpTo(rows, LastProcessed)
    /\ (Returned /\ \A k \in Processed :
                      PriceOf(rows[k]) >= 0 /\ QtyOf(rows[k]) >= 0)
         => /\ \A k \in Processed : IsMoney(TotalCell(rows[k]))
            /\ IsMoney(At(rows[Len(rows) - 1], 5))
            /\ Cents(At(rows[Len(rows) - 1], 5))
                 = CellCentsUpTo(rows, Len(rows) - 2)

\* C3: the ball pen counter is the sum of the quantities of the annotated
\* rows whose item cell is exactly "Ball Pen", and the count written in the
\* last row is that sum over all data rows.
BallPenCount ==
    /\ nb = BallPenQtyUpTo(rows, LastProcessed)
    /\ Returned =>
         /\ ~Atoi(At(rows[Len(rows)], 4)).err
         /\ Atoi(At(rows[Len(rows)], 4)).val
              = BallPenQtyUpTo(input, Len(input))

BallPenCountWitness ==
    /\ Returned
    /\ Len(input) = 3
    /\ At(input[2], 2) = BallPen
    /\ At(input[3], 2) = BallPens
    /\ QtyOf(input[2]) = 5
    /\ QtyOf(input[3]) = 5
    /\ At(rows[Len(rows)], 4) = <<"5">>

\* C4: the two rows appended are the Sum row, with the label at index 2 and
\* the grand total at index 5, then the Ball Pens row, with the label at
\* index 2 and the count at index 4, all other cells empty.
SummaryRowsLabelInItemColumn ==
    Returned =>
        /\ Len(rows) = Len(input) + 2
        /\ rows[Len(rows) - 1]
             = <<Empty, Empty, SumLabel, Empty, Empty, intToFloatString(sum)>>
        /\ rows[Len(rows)]
             = <<Empty, Empty, BallPens, Empty, Sprint(nb), Empty>>

\* The first row (position from 1) of a table of five-cell rows whose price
\* or quantity does not parse; 0 when every row parses.
BadRow(row) == ParsePrice(At(row, 3)).err \/ Atoi(At(row, 4)).err
FirstBad(t) ==
    IF \E k \in 2..Len(t) : BadRow(t[k])
    THEN CHOOSE k \in 2..Len(t) :
            BadRow(t[k]) /\ \A j \in 2..(k - 1) : ~BadRow(t[j])
    ELSE 0

WriterStarted == "Writer" \in {started[k] : k \in 1..Len(started)}

\* C5: when a data row of the table read (rows of five cells or more) has a
\* price or a quantity that does not parse, calculate never passes the first
\* such row, ends there fatally with the price message if the price is bad
\* and the quantity message otherwise, naming the row's item, returns no
\* table, and the Writer never starts nor touches the output file.
FatalAtFirstBadRow ==
    (Len(input) > 0 /\ Len(input[1]) >= 5 /\ FirstBad(input) # 0) =>
        LET b == FirstBad(input)
        IN  /\ ~Returned
            /\ pc # "panic"
            /\ ~WriterStarted
            /\ ~outFile.touched
            /\ ~outOpen
            /\ pc = "loop" => i < b
            /\ pc = "fatal" =>
                 /\ i = b - 1
                 /\ msg.item = At(input[b], 2)
                 /\ msg.kind = IF ParsePrice(At(input[b], 3)).err
                               THEN "price" ELSE "qty"

FatalAtFirstBadRowWitness ==
    /\ pc = "fatal"
    /\ Len(input) = 3
    /\ Len(input[1]) = 5
    /\ ~BadRow(input[2])
    /\ ParsePrice(At(input[3], 3)).err
    /\ Atoi(At(input[3], 4)).err
    /\ msg = [kind |-> "price", item |-> At(input[3], 2)]
    /\ outFile = OldFile

\* C6: writeOrders does not return normally after a failed create, write or
\* close: the run is not done when WriteAll returned an error.
WriteErrorIsFatal == pc = "done" => ~werr

\* C7: on a table whose rows all have five cells the table returned has
\* six cells in every row and two rows more than the input; while the loop
\* runs, the rows it has passed have six cells and the others five.
FiveCells(t) == \A k \in 1..Len(t) : Len(t[k]) = 5

RowWidths ==
    FiveCells(input) =>
        /\ Returned =>
             /\ Len(rows) = Len(input) + 2
             /\ \A k \in 1..Len(rows) : Len(rows[k]) = 6
        /\ pc = "loop" =>
             /\ Len(rows) = Len(input)
             /\ \A k \in 1..Len(rows) :
                  Len(rows[k]) = IF k <= i THEN 6 ELSE 5

RowWidthsWitness ==
    /\ pc = "done"
    /\ FiveCells(input)
    /\ Len(input) = 3
    /\ Len(rows) = 5
    /\ \A k \in 1..Len(rows) : Len(rows[k]) = 6

\* How far main() is from its end, and what is left of the loop.
PcRank ==
    CASE pc = "readOrders" -> 7
      [] pc = "readAll" -> 6
      [] pc = "calculate" -> 5
      [] pc = "loop" -> 4
      [] pc = "writeOrders" -> 3
      [] pc = "writeAll" -> 2
      [] pc = "close" -> 1
      [] OTHER -> 0
RowsLeft == Len(rows) - i

\* C8: the stages start in the order Reader, Calculator, Writer, each at
\* most once; the loop passes each row once; nothing starts after a fatal
\* error; no handle is open while the Calculator runs, the input handle is
\* open only in the Reader and the output handle only in the Writer; and
\* the run always terminates: every step brings main() nearer to its end
\* (a later position, or the same loop with fewer rows left), and a run
\* that has not ended can take a step.
Stages == <<"Reader", "Calculator", "Writer">>

StageOrder ==
    /\ Len(started) <= 3
    /\ started = SubSeq(Stages, 1, Len(started))
    /\ pc \in {"calculate", "loop", "panic"} => ~inOpen /\ ~outOpen
    /\ ~(inOpen /\ outOpen)
    /\ inOpen => started = <<"Reader">>
    /\ outOpen => started = Stages
    /\ pc = "done" => ~inOpen /\ ~outOpen /\ started = Stages
    /\ (pc = "fatal" /\ msg.kind \in {"open", "read"})
         => started = <<"Reader">>
    /\ (pc = "fatal" /\ msg.kind \in {"price", "qty"})
         => started = <<"Reader", "Calculator">>
    /\ RowsLeft >= 0

SinglePass ==
    /\ (pc = "loop" /\ pc' = "loop") => i' = i + 1
    /\ \/ PcRank' < PcRank
       \/ PcRank' = PcRank /\ RowsLeft' < RowsLeft

PipelineOrder ==
    /\ []StageOrder
    /\ [][SinglePass]_vars
    /\ [](Terminated \/ ENABLED Next)

\* The same end under the fairness of a sequential program.
Terminates == <>Terminated

PipelineOrderWitness ==
    /\ pc = "done"
    /\ started = Stages
    /\ Len(input) = 3
    /\ outFile.rows = rows

PriceIsCents ==
    (fnPc = "ret" /\ IsDecimal(fnArg)) =>
        /\ ~fnRes.err
        /\ fnRes.val * DecScale(fnArg) = 100 * DecNum(fnArg)

\* With exactly two fractional digits the integer is the price in cents.
PriceIsCentsTwoDigits ==
    (fnPc = "ret" /\ IsDecimal(fnArg) /\ Len(FracPart(fnArg)) = 2) =>
        /\ ~fnRes.err
        /\ fnRes.val * 100 = 100 * DecNum(fnArg)

\* A row of the table in memory is the input row and one more cell.
Extended(row, orig) ==
    /\ Len(row) = Len(orig) + 1
    /\ SubSeq(row, 1, Len(orig)) = orig

\* C11: calculate only extends the table. While it runs, the rows it has
\* passed are the input rows with one cell appended and the rows ahead are
\* the input rows, in the input's order; the table returned is the input
\* with "Total" appended to the header, one cell appended to every data
\* row, and two rows after the last data row. A fatal price or quantity
\* error is never about the header.
OnlyExtends ==
    /\ ~Returned =>
         /\ Len(rows) = Len(input)
         /\ \A k \in 1..Len(rows) :
              IF k <= i THEN Extended(rows[k], input[k])
              ELSE rows[k] = input[k]
    /\ Returned =>
         /\ Len(rows) = Len(input) + 2
         /\ \A k \in 1..Len(input) : Extended(rows[k], input[k])
         /\ Len(input) > 0 => rows[1] = input[1] \o <<Total>>
         /\ \A k \in 1..Len(input) :
              \A c \in 1..Len(input[k]) : rows[k][c] = input[k][c]
    /\ (pc = "fatal" /\ msg.kind \in {"price", "qty"}) =>
         /\ i >= 1
         /\ msg.item = At(input[i + 1], 2)

OnlyExtendsWitness ==
    /\ pc = "done"
    /\ Len(input) = 3
    /\ Len(input[1]) = 5
    /\ ParsePrice(At(input[1], 3)).err
    /\ Atoi(At(input[1], 4)).err
    /\ At(input[2], 2) # At(input[3], 2)
    /\ rows[1] = input[1] \o <<Total>>
    /\ SubSeq(rows[2], 1, 5) = input[2]
    /\ SubSeq(rows[3], 1, 5) = input[3]
    /\ Len(rows) = 5

\* C12: on every table the Reader can return, calculate returns a table or
\* ends with the fatal price or quantity error; it never ends by reading a
\* cell the row does not have.
CalculateEndsCleanly == pc # "panic"

\* On a table without data rows, or with five cells or more in its rows,
\* calculate does not read a cell a row does not have.
NoPanicOnWideRows ==
    (Len(input) <= 1 \/ Len(input[1]) >= 5) => pc # "panic"

\* On a table with data rows of fewer than four cells calculate always ends
\* by reading a missing cell; with four cells, it does unless the price of
\* the first data row does not parse.
PanicOnNarrowRows ==
    (Len(input) >= 2 /\ Len(input[1]) < 5 /\ Terminated) =>
        \/ pc = "panic" /\ i = 1
        \/ /\ Len(input[1]) = 4
           /\ pc = "fatal"
           /\ msg.kind = "price"
           /\ i = 1

====
